---- MODULE Spec2Model ----
(***************************************************************************)
(* Model of backend/app.py: a Flask application with a cookie session      *)
(* holding one flag (is_admin), two MongoDB collections (scripts and       *)
(* accounts) and a best-effort Telegram notification.  One action per      *)
(* route and HTTP method; every action is the whole handler.  A handler is *)
(* written as an operator from the state it runs in and its request to the *)
(* state it leaves and its response; the action applies it.  Each handler  *)
(* performs at most one store operation, which the store executes          *)
(* atomically, so concurrent requests are interleavings of these actions.  *)
(***************************************************************************)
EXTENDS Naturals, Sequences, FiniteSets, TLC

VARIABLES
    env,                  \* the values read from the environment (lines 20-23)
    session,              \* per client: the content of its session cookie
    scripts_collection,   \* set of documents of db["scripts"]
    accounts_collection,  \* set of documents of db["accounts"]
    inc,                  \* the next ObjectId the driver will generate
    resp,                 \* the last request's route and the response to it
    telegram,             \* what the last request did on the Telegram channel
    issued                \* history: every ObjectId a collection has held

vars == <<env, session, scripts_collection, accounts_collection, inc, resp,
          telegram, issued>>

\* ---------------------------------------------------------------- bounds
\* Number of ObjectIds the driver may generate in one run.
MaxIds == 2

\* The browsers (session cookies) talking to the server.
Clients == {"c1"}

\* ---------------------------------------------------------------- values
\* Python's None: an unset environment variable, a missing dict key.
None == "None"

\* Length of the hexadecimal form of an ObjectId (24 in bson; the parsing
\* and printing below work for any length).
IdLen == 4

HexDigits == <<"0", "1", "2", "3", "4", "5", "6", "7",
               "8", "9", "a", "b", "c", "d", "e", "f">>

HexChars == {HexDigits[i] : i \in 1..16}

RECURSIVE Hex(_, _)
\* The n-digit hexadecimal form of the number i.
Hex(i, n) == IF n = 0 THEN <<>>
             ELSE Append(Hex(i \div 16, n - 1), HexDigits[(i % 16) + 1])

\* str(oid): the hexadecimal digits of an ObjectId.
str(oid) == Hex(oid, IdLen)

DigitValue == [ch \in HexChars |-> CHOOSE d \in 0..15 : HexDigits[d + 1] = ch]

RECURSIVE HexValue(_, _)
\* The number written by the first n hexadecimal digits of s.
HexValue(s, n) == IF n = 0 THEN 0
                  ELSE 16 * HexValue(s, n - 1) + DigitValue[s[n]]

\* The length of the string is not checked.
ObjectId_any_length(s) ==
    IF \A i \in 1..Len(s) : s[i] \in HexChars
    THEN [valid |-> TRUE, value |-> HexValue(s, Len(s))]
    ELSE [valid |-> FALSE, value |-> 0]

\* ObjectId(s): bson raises InvalidId (valid = FALSE) unless the string is
\* IdLen hexadecimal digits.
ObjectId(s) == IF Len(s) = IdLen /\ \A i \in 1..Len(s) : s[i] \in HexChars
               THEN [valid |-> TRUE, value |-> HexValue(s, Len(s))]
               ELSE [valid |-> FALSE, value |-> 0]

\* The path identifiers requests are made with: the identifiers the driver
\* can generate, one it never generates (all zeros), and malformed ones
\* (too short, a character that is no hexadecimal digit).
WellFormedIds == {str(i) : i \in 0..MaxIds}

MalformedIds == { SubSeq(str(1), 1, IdLen - 1),
                  [str(1) EXCEPT ![1] = "g"] }

PathIds == WellFormedIds \cup MalformedIds

\* ---------------------------------------------------------------- environment
\* os.getenv returns None for a variable that is not set.
Env(p, t, ch) == [ADMIN_PASSWORD |-> p, TELEGRAM_BOT_TOKEN |-> t, TELEGRAM_CHAT_ID |-> ch]

\* A configured deployment, and one where the password and the chat id are
\* not set.
Envs == {Env("secret", "token", "chat"), Env(None, "token", None)}

\* ---------------------------------------------------------------- request bodies
\* A request body as request.get_json(silent=True) sees it: no or unparsable
\* JSON ("null", get_json returns None), a JSON object, or a JSON number.
EmptyDict == [k \in {} |-> None]

Null == [kind |-> "null", fields |-> EmptyDict, num |-> 0]

Obj(f) == [kind |-> "object", fields |-> f, num |-> 0]

Num(n) == [kind |-> "number", fields |-> EmptyDict, num |-> n]

\* Python truthiness of a parsed JSON value.
Truthy(v) == CASE v.kind = "null"   -> FALSE
               [] v.kind = "number" -> v.num # 0
               [] v.kind = "object" -> DOMAIN v.fields # {}

\* data = request.get_json(silent=True) or {}
get_json_or_empty(body) == IF Truthy(body) THEN body ELSE Obj(EmptyDict)

\* data.get(k, default) on a dict.
Get(data, k, default) == IF k \in DOMAIN data.fields THEN data.fields[k] ELSE default

\* all(k in data for k in required) on a dict.
HasAll(data, required) == \A k \in required : k \in DOMAIN data.fields

\* f with the key k removed.
Without(f, k) == [x \in DOMAIN f \ {k} |-> f[x]]

ScriptRequired == {"title", "image", "key"}

AccountRequired == {"name", "image", "username", "password"}

DefaultAccent == "#0ea5e9"

ScriptFull(v) == [title |-> v, image |-> v, key |-> v]

AccountFull(v) == [name |-> v, image |-> v, username |-> v, password |-> v]

\* Bodies with every required field (one of them with an empty title or
\* password), bodies that lack the first or the last required field, no
\* JSON, a JSON number.
ScriptBodies ==
    {Obj(ScriptFull("a")), Obj(ScriptFull("b")),
     Obj([ScriptFull("a") EXCEPT !["title"] = ""]),
     Null, Num(7)}
    \cup {Obj(Without(ScriptFull("a"), k)) : k \in {"title", "key"}}

AccountBodies ==
    {Obj(AccountFull("a")), Obj(AccountFull("b") @@ ("accentColor" :> "c")),
     Obj([AccountFull("a") EXCEPT !["password"] = ""]),
     Null, Num(7)}
    \cup {Obj(Without(AccountFull("a"), k)) : k \in {"name", "password"}}

LoginBodies ==
    {Obj([password |-> "secret"]), Obj([password |-> "wrong"]),
     Obj([user |-> "admin"]), Null, Num(7)}

CopyBodies == {Obj([title |-> "a", key |-> "a", time |-> "now"]), Null, Num(7)}

\* requests.post either returns a 2xx answer or raises (network error,
\* timeout, raise_for_status on a non-2xx answer).
NetOutcomes == {"delivered", "failed"}

\* ---------------------------------------------------------------- session
EmptySession == [is_admin |-> FALSE, permanent |-> FALSE]

AdminSession == [is_admin |-> TRUE, permanent |-> TRUE]

\* session.get("is_admin", True): a session without the flag counts as admin.
check_admin_auth_default_true(s) == s.is_admin = TRUE \/ s = EmptySession

check_admin_auth(s) == s.is_admin = TRUE

\* ---------------------------------------------------------------- notification
\* No try/except around requests.post: its exception leaves the function.
send_telegram_notification_uncaught(e, net) ==
    IF e.TELEGRAM_BOT_TOKEN = None \/ e.TELEGRAM_CHAT_ID = None
    THEN [posts |-> 0, outcome |-> "skipped", raised |-> FALSE]
    ELSE [posts |-> 1, outcome |-> net, raised |-> net = "failed"]

\* The result of one call: the number of requests.post calls it made, what
\* became of the message, and whether an exception left the function.
send_telegram_notification(e, net) ==
    IF e.TELEGRAM_BOT_TOKEN = None \/ e.TELEGRAM_CHAT_ID = None
    THEN [posts |-> 0, outcome |-> "skipped", raised |-> FALSE]
    ELSE [posts |-> 1, outcome |-> net, raised |-> FALSE]

NotCalled == [posts |-> 0, outcome |-> "none", raised |-> FALSE]

\* ---------------------------------------------------------------- state
\* The mutable state a handler runs in.
State(sess, scr, acc, i) ==
    [session |-> sess, scripts |-> scr, accounts |-> acc, inc |-> i]

Cur == State(session, scripts_collection, accounts_collection, inc)

\* ---------------------------------------------------------------- responses
ServerError == "Internal Server Error"

Response(op, status, message, body) ==
    [op |-> op, status |-> status, message |-> message, body |-> body]

\* What a handler does up to its return statement: the state it leaves, the
\* response it is about to return, whether it calls
\* send_telegram_notification before returning, and the collection methods
\* it has called.
Result(st, rsp, notify, calls) ==
    [st |-> st, resp |-> rsp, notify |-> notify, calls |-> calls]

\* An uncaught exception: Flask answers 500.
Raise(st, op) == Result(st, Response(op, 500, ServerError, {}), FALSE, <<>>)

\* The handler runs to its end: the notification, if any, is attempted with
\* the network behaving as net; an exception leaving it would replace the
\* response by a 500.
FinishIn(e, r, net) ==
    LET n == IF r.notify THEN send_telegram_notification(e, net) ELSE NotCalled
    IN  [st       |-> r.st,
         resp     |-> IF n.raised THEN Response(r.resp.op, 500, ServerError, {})
                      ELSE r.resp,
         telegram |-> [posts |-> n.posts, outcome |-> n.outcome]]

Finish(r, net) == FinishIn(env, r, net)

\* The network outcomes that matter to a handler's run.
NetFor(r) == IF r.notify THEN NetOutcomes ELSE {"delivered"}

\* ---------------------------------------------------------------- store
\* cursor documents with _id coerced to its string form.
Listed(coll) == {[d EXCEPT !["_id"] = str(d["_id"])] : d \in coll}

\* The new document's _id taken from the size of the collection.
insert_one_count_id(coll, fields, oid) ==
    coll \cup {("_id" :> Cardinality(coll) + 1) @@ fields}

\* insert_one: the driver generates the next ObjectId.
insert_one(coll, fields, oid) == coll \cup {("_id" :> oid) @@ fields}

\* update_one(..., upsert=True): a document is created when none matches.
update_one_upsert(coll, oid, fields) ==
    IF \E d \in coll : d["_id"] = oid
    THEN {IF d["_id"] = oid THEN fields @@ d ELSE d : d \in coll}
    ELSE coll \cup {("_id" :> oid) @@ fields}

\* update_one({"_id": oid}, {"$set": fields}): the matched document with the
\* given fields set, its other fields kept; no document is created.
update_one(coll, oid, fields) ==
    {IF d["_id"] = oid THEN fields @@ d ELSE d : d \in coll}

matched_count(coll, oid) == Cardinality({d \in coll : d["_id"] = oid})

delete_one(coll, oid) == {d \in coll : d["_id"] # oid}

deleted_count(coll, oid) == Cardinality(coll) - Cardinality(delete_one(coll, oid))

\* ---------------------------------------------------------------- start
Init ==
    /\ env \in Envs
    /\ session = [c \in Clients |-> EmptySession]
    /\ scripts_collection = {}
    /\ accounts_collection = {}
    /\ inc = 1
    /\ resp = Response("start", 0, None, {})
    /\ telegram = [posts |-> 0, outcome |-> "none"]
    /\ issued = {}

\* The request has been handled: the state, the response and the Telegram
\* channel are as the handler's run f left them.
Do(f) ==
    /\ f.st.inc <= MaxIds + 1
    /\ session' = f.st.session
    /\ scripts_collection' = f.st.scripts
    /\ accounts_collection' = f.st.accounts
    /\ inc' = f.st.inc
    /\ resp' = f.resp
    /\ telegram' = f.telegram
    /\ issued' = issued \cup {d["_id"] : d \in f.st.scripts \cup f.st.accounts}
    /\ UNCHANGED env

Handle(r) == \E net \in NetFor(r) : Do(Finish(r, net))

\* ---------------------------------------------------------------- auth API
admin_login(st, c, body) ==
    LET data == get_json_or_empty(body)
    IN  IF data.kind # "object"
        THEN Raise(st, "login")
        ELSE IF Get(data, "password", None) = env.ADMIN_PASSWORD
        THEN Result([st EXCEPT !.session[c] = AdminSession],
                    Response("login", 200, None, {("success" :> TRUE)}), TRUE, <<>>)
        ELSE Result(st, Response("login", 401, "Incorrect password",
                                 {("success" :> FALSE)}), FALSE, <<>>)

\* session.pop("is_admin", None) on a session made permanent: the flag goes,
\* the session stays permanent.
logout_pop_flag(st, c) ==
    Result([st EXCEPT !.session[c].is_admin = FALSE],
           Response("logout", 200, None, {("success" :> TRUE)}), FALSE, <<>>)

logout(st, c) ==
    Result([st EXCEPT !.session[c] = EmptySession],
           Response("logout", 200, None, {("success" :> TRUE)}), FALSE, <<>>)

check_auth(st, c) ==
    Result(st, Response("check-auth", 200, None,
                        {("authenticated" :> check_admin_auth(st.session[c]))}),
           FALSE, <<>>)

Login(c, b) == Handle(admin_login(Cur, c, b))

Logout(c) == Handle(logout(Cur, c))

CheckAuth(c) == Handle(check_auth(Cur, c))

\* The permanent session cookie outlives PERMANENT_SESSION_LIFETIME: the
\* browser drops it and Flask no longer accepts it.
SessionExpire(c) ==
    /\ session[c].permanent = TRUE
    /\ session' = [session EXCEPT ![c] = EmptySession]
    /\ UNCHANGED <<env, scripts_collection, accounts_collection, inc, resp, telegram,
                   issued>>

\* ---------------------------------------------------------------- upload
\* request.files: no "image" part, a part with an empty filename, a file
\* without an extension, a file with one.
NoFile == [present |-> FALSE, stem |-> "", ext |-> None, data |-> ""]

Files == {NoFile,
          [present |-> TRUE, stem |-> "",    ext |-> None,  data |-> ""],
          [present |-> TRUE, stem |-> "pic", ext |-> None,  data |-> "bytes"],
          [present |-> TRUE, stem |-> "pic", ext |-> "jpg", data |-> "bytes"]}

\* file.filename: the stem, and "." with the extension when there is one.
Filename(f) == IF f.ext = None THEN <<f.stem>> ELSE <<f.stem, ".", f.ext>>

upload_image(st, c, f) ==
    IF ~check_admin_auth(st.session[c])
    THEN Result(st, Response("upload-image", 401, "Unauthorized", {}), FALSE, <<>>)
    ELSE IF ~f.present
    THEN Result(st, Response("upload-image", 400, "No image file provided", {}), FALSE, <<>>)
    ELSE IF Filename(f) = <<"">>
    THEN Result(st, Response("upload-image", 400, "No selected file", {}), FALSE, <<>>)
    ELSE LET ext == IF f.ext # None THEN f.ext ELSE "png"
             url == <<"data:", "image/", ext, ";base64,", f.data>>
         IN  Result(st, Response("upload-image", 200, None,
                        {[success |-> TRUE, imageUrl |-> url, filename |-> Filename(f)]}),
                    FALSE, <<>>)

UploadImage(c, f) == Handle(upload_image(Cur, c, f))

\* ---------------------------------------------------------------- scripts API
scripts_GET(st, c) ==
    Result(st, Response("GET scripts", 200, None, Listed(st.scripts)), FALSE, <<"find">>)

\* The three fields the handler copies out of the body.
ScriptDoc(data) == [k \in ScriptRequired |-> data.fields[k]]

scripts_POST(st, c, body) ==
    LET data == get_json_or_empty(body)
    IN  IF ~check_admin_auth(st.session[c])
        THEN Result(st, Response("POST scripts", 401, "Unauthorized", {}), FALSE, <<>>)
        ELSE IF data.kind # "object"
        THEN Raise(st, "POST scripts")
        ELSE IF ~HasAll(data, ScriptRequired)
        THEN Result(st, Response("POST scripts", 400, "Missing required fields", {}),
                    FALSE, <<>>)
        ELSE Result([st EXCEPT !.scripts = insert_one(@, ScriptDoc(data), st.inc),
                                !.inc = @ + 1],
                    Response("POST scripts", 201, "Script added",
                             {("_id" :> str(st.inc)) @@ ScriptDoc(data)}),
                    TRUE, <<"insert_one">>)

scripts_PUT(st, c, script_id, body) ==
    LET data == get_json_or_empty(body)
        oid  == ObjectId(script_id)
    IN  IF ~check_admin_auth(st.session[c])
        THEN Result(st, Response("PUT scripts", 401, "Unauthorized", {}), FALSE, <<>>)
        ELSE IF data.kind # "object"
        THEN Raise(st, "PUT scripts")
        ELSE IF ~HasAll(data, ScriptRequired)
        THEN Result(st, Response("PUT scripts", 400, "Missing required fields", {}),
                    FALSE, <<>>)
        ELSE IF ~oid.valid
        THEN Result(st, Response("PUT scripts", 400, "Invalid script ID format", {}),
                    FALSE, <<>>)
        ELSE LET updated == [st EXCEPT
                                !.scripts = update_one(@, oid.value, ScriptDoc(data))]
             IN  IF matched_count(st.scripts, oid.value) = 0
                 THEN Result(updated, Response("PUT scripts", 404, "Script not found", {}),
                             FALSE, <<"update_one">>)
                 ELSE Result(updated, Response("PUT scripts", 200, "Script updated", {}),
                             TRUE, <<"update_one">>)

scripts_DELETE(st, c, script_id) ==
    LET oid == ObjectId(script_id)
    IN  IF ~check_admin_auth(st.session[c])
        THEN Result(st, Response("DELETE scripts", 401, "Unauthorized", {}), FALSE, <<>>)
        ELSE IF ~oid.valid
        THEN Result(st, Response("DELETE scripts", 400, "Invalid script ID format", {}),
                    FALSE, <<>>)
        ELSE LET deleted == [st EXCEPT !.scripts = delete_one(@, oid.value)]
             IN  IF deleted_count(st.scripts, oid.value) = 0
                 THEN Result(deleted, Response("DELETE scripts", 404, "Script not found", {}),
                             FALSE, <<"delete_one">>)
                 ELSE Result(deleted, Response("DELETE scripts", 200, "Script deleted", {}),
                             TRUE, <<"delete_one">>)

ScriptsGet(c) == Handle(scripts_GET(Cur, c))

ScriptsPost(c, b) == Handle(scripts_POST(Cur, c, b))

ScriptsPut(c, i, b) == Handle(scripts_PUT(Cur, c, i, b))

ScriptsDelete(c, i) == Handle(scripts_DELETE(Cur, c, i))

\* ---------------------------------------------------------------- accounts API
accounts_GET(st, c) ==
    IF ~check_admin_auth(st.session[c])
    THEN Result(st, Response("GET accounts", 401, "Unauthorized", {}), FALSE, <<>>)
    ELSE Result(st, Response("GET accounts", 200, None, Listed(st.accounts)), FALSE, <<"find">>)

\* accentColor is set only when the body has one.
AccountDoc_accent_if_present(data) ==
    [k \in AccountRequired \cup ({"accentColor"} \cap DOMAIN data.fields)
        |-> data.fields[k]]

\* doc / update_doc: the four required fields and accentColor, which is the
\* default when the body has none.
AccountDoc(data) ==
    [k \in AccountRequired |-> data.fields[k]]
      @@ ("accentColor" :> Get(data, "accentColor", DefaultAccent))

accounts_POST(st, c, body) ==
    LET data == get_json_or_empty(body)
    IN  IF ~check_admin_auth(st.session[c])
        THEN Result(st, Response("POST accounts", 401, "Unauthorized", {}), FALSE, <<>>)
        ELSE IF data.kind # "object"
        THEN Raise(st, "POST accounts")
        ELSE IF ~HasAll(data, AccountRequired)
        THEN Result(st, Response("POST accounts", 400, "Missing required fields", {}),
                    FALSE, <<>>)
        ELSE Result([st EXCEPT !.accounts = insert_one(@, AccountDoc(data), st.inc),
                                !.inc = @ + 1],
                    Response("POST accounts", 201, "Profile added",
                             {("_id" :> str(st.inc)) @@ AccountDoc(data)}),
                    TRUE, <<"insert_one">>)

accounts_PUT(st, c, account_id, body) ==
    LET data == get_json_or_empty(body)
        oid  == ObjectId(account_id)
    IN  IF ~check_admin_auth(st.session[c])
        THEN Result(st, Response("PUT accounts", 401, "Unauthorized", {}), FALSE, <<>>)
        ELSE IF data.kind # "object"
        THEN Raise(st, "PUT accounts")
        ELSE IF ~HasAll(data, AccountRequired)
        THEN Result(st, Response("PUT accounts", 400, "Missing required fields", {}),
                    FALSE, <<>>)
        ELSE IF ~oid.valid
        THEN Result(st, Response("PUT accounts", 400, "Invalid account ID format", {}),
                    FALSE, <<>>)
        ELSE LET updated == [st EXCEPT
                                !.accounts = update_one(@, oid.value, AccountDoc(data))]
             IN  IF matched_count(st.accounts, oid.value) = 0
                 THEN Result(updated, Response("PUT accounts", 404, "Account not found", {}),
                             FALSE, <<"update_one">>)
                 ELSE Result(updated, Response("PUT accounts", 200, "Profile updated", {}),
                             TRUE, <<"update_one">>)

accounts_DELETE(st, c, account_id) ==
    LET oid == ObjectId(account_id)
    IN  IF ~check_admin_auth(st.session[c])
        THEN Result(st, Response("DELETE accounts", 401, "Unauthorized", {}), FALSE, <<>>)
        ELSE IF ~oid.valid
        THEN Result(st, Response("DELETE accounts", 400, "Invalid account ID format", {}),
                    FALSE, <<>>)
        ELSE LET deleted == [st EXCEPT !.accounts = delete_one(@, oid.value)]
             IN  IF deleted_count(st.accounts, oid.value) = 0
                 THEN Result(deleted, Response("DELETE accounts", 404, "Account not found", {}),
                             FALSE, <<"delete_one">>)
                 ELSE Result(deleted, Response("DELETE accounts", 200, "Profile deleted", {}),
                             TRUE, <<"delete_one">>)

AccountsGet(c) == Handle(accounts_GET(Cur, c))

AccountsPost(c, b) == Handle(accounts_POST(Cur, c, b))

AccountsPut(c, i, b) == Handle(accounts_PUT(Cur, c, i, b))

AccountsDelete(c, i) == Handle(accounts_DELETE(Cur, c, i))

\* ---------------------------------------------------------------- notify/copy
notify_copy(st, c, body) ==
    LET data == get_json_or_empty(body)
    IN  IF data.kind # "object"
        THEN Raise(st, "notify/copy")
        ELSE Result(st, Response("notify/copy", 200, "Notification sent",
                                 {("success" :> TRUE)}), TRUE, <<>>)

NotifyCopy(c, b) == Handle(notify_copy(Cur, c, b))

\* ---------------------------------------------------------------- specification
Next ==
    \E c \in Clients :
        \/ \E b \in LoginBodies : Login(c, b)
        \/ Logout(c)
        \/ CheckAuth(c)
        \/ SessionExpire(c)
        \/ \E f \in Files : UploadImage(c, f)
        \/ ScriptsGet(c)
        \/ \E b \in ScriptBodies : ScriptsPost(c, b)
        \/ \E i \in PathIds, b \in ScriptBodies : ScriptsPut(c, i, b)
        \/ \E i \in PathIds : ScriptsDelete(c, i)
        \/ AccountsGet(c)
        \/ \E b \in AccountBodies : AccountsPost(c, b)
        \/ \E i \in PathIds, b \in AccountBodies : AccountsPut(c, i, b)
        \/ \E i \in PathIds : AccountsDelete(c, i)
        \/ \E b \in CopyBodies : NotifyCopy(c, b)

Spec == Init /\ [][Next]_vars

\* ================================================================ properties
\* The session c is in the state Admin / Anonymous.
Admin(c) == session[c] = AdminSession

Anonymous(c) == session[c] = EmptySession

\* The body is a JSON object with every one of the fields.
Full(b, required) == b.kind = "object" /\ required \subseteq DOMAIN b.fields

\* The ways a handler's run r can end, one per behaviour of the network.
Ends(r) == {Finish(r, net) : net \in NetOutcomes}

\* Nothing of the state has changed, no notification was attempted.
Untouched(f) == f.st = Cur /\ f.telegram = [posts |-> 0, outcome |-> "none"]

\* Every request a client c can make to an endpoint that is gated.
GatedRuns(c) ==
    {scripts_POST(Cur, c, b) : b \in ScriptBodies}
    \cup {scripts_PUT(Cur, c, i, b) : i \in PathIds, b \in ScriptBodies}
    \cup {scripts_DELETE(Cur, c, i) : i \in PathIds}
    \cup {accounts_GET(Cur, c)}
    \cup {accounts_POST(Cur, c, b) : b \in AccountBodies}
    \cup {accounts_PUT(Cur, c, i, b) : i \in PathIds, b \in AccountBodies}
    \cup {accounts_DELETE(Cur, c, i) : i \in PathIds}
    \cup {upload_image(Cur, c, f) : f \in Files}

\* C1: in every reachable state, every request to a gated endpoint made with
\* a session that is not Admin is answered 401, leaves the session, both
\* collections and the id counter as they were and attempts no notification,
\* whatever its body or path identifier; GET /api/scripts with such a
\* session is answered 200 with one record, _id in string form, per Script.
C1_Unauthorized ==
    \A c \in Clients : ~Admin(c) =>
        /\ \A r \in GatedRuns(c) : \A f \in Ends(r) :
              /\ f.resp.status = 401
              /\ f.resp.message = "Unauthorized"
              /\ r.calls = <<>>
              /\ Untouched(f)
        /\ \A f \in Ends(scripts_GET(Cur, c)) :
              /\ f.resp.status = 200
              /\ Cardinality(f.resp.body) = Cardinality(scripts_collection)
              /\ \A d \in scripts_collection :
                    ([d EXCEPT !["_id"] = str(d["_id"])]) \in f.resp.body
              /\ f.st = Cur

\* A refused write by a session that is not Admin while records are stored.
C1_Witness ==
    /\ resp.op = "DELETE scripts"
    /\ resp.status = 401
    /\ \E c \in Clients : ~Admin(c)
    /\ scripts_collection # {}
    /\ accounts_collection # {}

\* C2: for every POST /api/login body, with or without a password field: if
\* the body supplies a password and it is the configured admin secret, the
\* session becomes Admin and the answer is 200 {success: true}; otherwise
\* the answer is 401 and the session is as it was before the request.
C2_LoginContract ==
    [][\A c \in Clients, b \in LoginBodies : Login(c, b) =>
          IF /\ b.kind = "object"
             /\ "password" \in DOMAIN b.fields
             /\ env.ADMIN_PASSWORD # None
             /\ b.fields["password"] = env.ADMIN_PASSWORD
          THEN /\ session'[c] = AdminSession
               /\ resp'.status = 200
               /\ resp'.body = {("success" :> TRUE)}
          ELSE /\ resp'.status = 401
               /\ session' = session]_vars

\* C3: a session is always in exactly one of the states Anonymous and Admin;
\* a step that takes a session from Anonymous to Admin is a login answered
\* 200 and no other step changes it that way; a step that takes it from
\* Admin to Anonymous is a logout or the expiry of its lifetime; a step that
\* changes a session is a login, a logout or an expiry of that session;
\* logout leaves the session Anonymous whatever state it was in.
C3_SessionMachine ==
    [][\A c \in Clients :
          /\ Admin(c) \/ Anonymous(c)
          /\ session'[c] \in {AdminSession, EmptySession}
          /\ (Anonymous(c) /\ session'[c] = AdminSession) =>
                 /\ \E b \in LoginBodies : Login(c, b)
                 /\ resp'.op = "login" /\ resp'.status = 200
          /\ (Admin(c) /\ session'[c] = EmptySession) =>
                 Logout(c) \/ SessionExpire(c)
          /\ session'[c] # session[c] =>
                 \/ \E b \in LoginBodies : Login(c, b)
                 \/ Logout(c)
                 \/ SessionExpire(c)
          /\ (session'[c] # session[c] /\ ~SessionExpire(c)) =>
                 resp'.op \in {"login", "logout"}
          /\ Logout(c) => session'[c] = EmptySession]_vars

\* A session that has been Admin (it has created a record) after its logout.
C3_Witness ==
    /\ resp.op = "logout"
    /\ \E c \in Clients : Anonymous(c)
    /\ inc > 1

\* The state of the collections, and what the step did on the Telegram
\* channel: nothing stored has changed and no notification was attempted.
NoWrite ==
    /\ scripts_collection' = scripts_collection
    /\ accounts_collection' = accounts_collection
    /\ telegram' = [posts |-> 0, outcome |-> "none"]

\* C4: an authenticated POST or PUT on scripts or on accounts whose body
\* lacks one of the required fields is answered 400 "Missing required
\* fields", and both collections have the same records afterwards and no
\* notification is sent.
C4_MissingFields ==
    [][\A c \in Clients : Admin(c) =>
          /\ \A b \in ScriptBodies : ~Full(b, ScriptRequired) =>
                /\ ScriptsPost(c, b) =>
                      resp'.status = 400 /\ resp'.message = "Missing required fields"
                                         /\ NoWrite
                /\ \A i \in PathIds : ScriptsPut(c, i, b) =>
                      resp'.status = 400 /\ resp'.message = "Missing required fields"
                                         /\ NoWrite
          /\ \A b \in AccountBodies : ~Full(b, AccountRequired) =>
                /\ AccountsPost(c, b) =>
                      resp'.status = 400 /\ resp'.message = "Missing required fields"
                                         /\ NoWrite
                /\ \A i \in PathIds : AccountsPut(c, i, b) =>
                      resp'.status = 400 /\ resp'.message = "Missing required fields"
                                         /\ NoWrite]_vars

\* C5: in every reachable state every stored Script has a non-empty title,
\* image and key and every stored Account a non-empty name, image, username
\* and password.
C5_NoEmptyRequiredField ==
    /\ \A d \in scripts_collection : \A k \in ScriptRequired : d[k] # ""
    /\ \A d \in accounts_collection : \A k \in AccountRequired : d[k] # ""

\* The records of a listing whose _id is the string id.
WithId(listing, id) == {x \in listing : x["_id"] = id}

\* In the current state: an authenticated POST /api/scripts with a body that
\* has the three fields is answered 201 with a script made of those fields
\* and an _id no document of either collection has ever had; the collection
\* has one record more; a GET /api/scripts that follows lists exactly one
\* record with that _id, with the fields of the body.
C6_CreateHere ==
    \A c \in Clients : Admin(c) =>
        \A b \in ScriptBodies : Full(b, ScriptRequired) =>
            LET r == scripts_POST(Cur, c, b)
            IN  \A f \in Ends(r) :
                    /\ f.resp.status = 201
                    /\ Cardinality(f.resp.body) = 1
                    /\ \A x \in f.resp.body :
                          /\ DOMAIN x = {"_id"} \cup ScriptRequired
                          /\ \A k \in ScriptRequired : x[k] = b.fields[k]
                          /\ \A o \in issued : x["_id"] # str(o)
                          /\ \A d \in scripts_collection \cup accounts_collection :
                                x["_id"] # str(d["_id"])
                          /\ \A f2 \in Ends(scripts_GET(f.st, c)) :
                                /\ f2.resp.status = 200
                                /\ WithId(f2.resp.body, x["_id"]) = {x}
                    /\ Cardinality(f.st.scripts) = Cardinality(scripts_collection) + 1
                    /\ scripts_collection \subseteq f.st.scripts
                    /\ f.st.accounts = accounts_collection

Unmatched(coll) == {i \in WellFormedIds : \A d \in coll : str(d["_id"]) # i}

\* The run r is answered 404 and has changed nothing, notified nobody.
NotFound(r, message) ==
    \A f \in Ends(r) :
        /\ f.resp.status = 404
        /\ f.resp.message = message
        /\ Untouched(f)

\* C7: an authenticated PUT with all required fields, or DELETE, on scripts
\* or accounts whose identifier is well-formed but matches no record when
\* the store operation runs is answered 404, creates no record, leaves both
\* collections unchanged and sends no notification; and of two DELETE
\* requests for the same existing record, run in either order, the first
\* to reach the store is answered 200 and the other 404.
C7_NotFound ==
    \A c \in Clients : Admin(c) =>
        /\ \A i \in Unmatched(scripts_collection) :
              /\ \A b \in ScriptBodies : Full(b, ScriptRequired) =>
                    NotFound(scripts_PUT(Cur, c, i, b), "Script not found")
              /\ NotFound(scripts_DELETE(Cur, c, i), "Script not found")
        /\ \A i \in Unmatched(accounts_collection) :
              /\ \A b \in AccountBodies : Full(b, AccountRequired) =>
                    NotFound(accounts_PUT(Cur, c, i, b), "Account not found")
              /\ NotFound(accounts_DELETE(Cur, c, i), "Account not found")
        /\ \A c2 \in Clients : Admin(c2) =>
              /\ \A d \in scripts_collection :
                    LET first  == scripts_DELETE(Cur, c, str(d["_id"]))
                        second == scripts_DELETE(first.st, c2, str(d["_id"]))
                    IN  /\ first.resp.status = 200
                        /\ second.resp.status = 404
                        /\ second.st = first.st
                        /\ ~second.notify
              /\ \A d \in accounts_collection :
                    LET first  == accounts_DELETE(Cur, c, str(d["_id"]))
                        second == accounts_DELETE(first.st, c2, str(d["_id"]))
                    IN  /\ first.resp.status = 200
                        /\ second.resp.status = 404
                        /\ second.st = first.st
                        /\ ~second.notify

\* An update of a record that has been deleted was answered 404 while other
\* records are stored.
C7_Witness ==
    /\ resp.op = "PUT accounts"
    /\ resp.status = 404
    /\ inc = 3
    /\ Cardinality(accounts_collection) = 1

\* The step is answered with the InvalidIdentifier error and writes nothing.
InvalidIdentifier(message) ==
    /\ resp'.status = 400
    /\ resp'.message = message
    /\ NoWrite

\* C8 as stated: an authenticated PUT on scripts or accounts with a
\* malformed path identifier is answered with the InvalidIdentifier error
\* for every request body, and the collections are unchanged; the same for
\* an authenticated DELETE.
C8_InvalidIdentifierForEveryBody ==
    [][\A c \in Clients : Admin(c) =>
          \A i \in MalformedIds :
              /\ \A b \in ScriptBodies : ScriptsPut(c, i, b) =>
                    InvalidIdentifier("Invalid script ID format")
              /\ ScriptsDelete(c, i) => InvalidIdentifier("Invalid script ID format")
              /\ \A b \in AccountBodies : AccountsPut(c, i, b) =>
                    InvalidIdentifier("Invalid account ID format")
              /\ AccountsDelete(c, i) =>
                    InvalidIdentifier("Invalid account ID format")]_vars

\* The run r calls no collection method, changes nothing, notifies nobody.
StoreNotReached(r) == r.calls = <<>> /\ \A f \in Ends(r) : Untouched(f)

\* The run r is answered with the InvalidIdentifier error.
InvalidId(r, message) ==
    /\ r.resp.status = 400
    /\ r.resp.message = message
    /\ \A f \in Ends(r) : f.resp = r.resp

\* C8 amended: an authenticated PUT or DELETE on scripts or accounts with a
\* malformed path identifier never reaches the store, whatever the body: no
\* collection method is called and nothing changes; DELETE is always
\* answered with the InvalidIdentifier error, PUT is when the body is a JSON
\* object with every required field (the required fields are checked before
\* the identifier).
C8_InvalidIdentifier ==
    \A c \in Clients : Admin(c) =>
        \A i \in MalformedIds :
            /\ \A b \in ScriptBodies :
                  LET r == scripts_PUT(Cur, c, i, b)
                  IN  /\ StoreNotReached(r)
                      /\ Full(b, ScriptRequired) =>
                             InvalidId(r, "Invalid script ID format")
            /\ \A b \in AccountBodies :
                  LET r == accounts_PUT(Cur, c, i, b)
                  IN  /\ StoreNotReached(r)
                      /\ Full(b, AccountRequired) =>
                             InvalidId(r, "Invalid account ID format")
            /\ LET r == scripts_DELETE(Cur, c, i)
               IN  StoreNotReached(r) /\ InvalidId(r, "Invalid script ID format")
            /\ LET r == accounts_DELETE(Cur, c, i)
               IN  StoreNotReached(r) /\ InvalidId(r, "Invalid account ID format")

\* An update with a malformed identifier has been refused while records are
\* stored.
C8_Witness ==
    /\ resp.op = "PUT accounts"
    /\ resp.status = 400
    /\ resp.message = "Invalid account ID format"
    /\ accounts_collection # {}

\* The environment with every setting of the two Telegram credentials.
TelegramEnvs ==
    {[env EXCEPT !.TELEGRAM_BOT_TOKEN = t, !.TELEGRAM_CHAT_ID = h] :
        t \in {None, "token"}, h \in {None, "chat"}}

\* Every login, create, update, delete and notify/copy request of client c.
NotifyingRuns(c) ==
    {admin_login(Cur, c, b) : b \in LoginBodies}
    \cup {scripts_POST(Cur, c, b) : b \in ScriptBodies}
    \cup {scripts_PUT(Cur, c, i, b) : i \in PathIds, b \in ScriptBodies}
    \cup {scripts_DELETE(Cur, c, i) : i \in PathIds}
    \cup {accounts_POST(Cur, c, b) : b \in AccountBodies}
    \cup {accounts_PUT(Cur, c, i, b) : i \in PathIds, b \in AccountBodies}
    \cup {accounts_DELETE(Cur, c, i) : i \in PathIds}
    \cup {notify_copy(Cur, c, b) : b \in CopyBodies}

\* C9: for every login, create, update, delete and notify/copy request, the
\* response and the resulting session and collections are what the handler
\* had determined before the notification, the same whether the
\* notification is skipped (a credential unset), delivered or fails; and
\* the request makes at most one outbound call, none when it is skipped.
C9_NotificationIsolated ==
    \A c \in Clients : \A r \in NotifyingRuns(c) :
        \A e \in TelegramEnvs, net \in NetOutcomes :
            LET f == FinishIn(e, r, net)
            IN  /\ f.resp = r.resp
                /\ f.st = r.st
                /\ f.telegram.posts <= 1
                /\ f.telegram.outcome = "skipped" => f.telegram.posts = 0
                /\ f.telegram.outcome \in {"delivered", "failed"} <=>
                      (r.notify /\ e.TELEGRAM_BOT_TOKEN # None
                                /\ e.TELEGRAM_CHAT_ID # None)

\* A record has been created and answered 201 although the notification
\* failed.
C9_Witness ==
    /\ resp.op = "POST accounts"
    /\ resp.status = 201
    /\ telegram = [posts |-> 1, outcome |-> "failed"]
    /\ accounts_collection # {}

\* C10: an authenticated PUT with every required field on an existing Script
\* or Account is answered 200 and replaces that record and nothing else:
\* the record keeps its _id, its other fields are exactly the payload's
\* (title, image, key; name, image, username, password and accentColor,
\* "#0ea5e9" when the payload has none), the count is unchanged and every
\* other record of both collections, the sessions and the id counter are
\* unchanged.
C10_FullReplace ==
    \A c \in Clients : Admin(c) =>
        /\ \A d \in scripts_collection, b \in ScriptBodies :
              Full(b, ScriptRequired) =>
                  LET r   == scripts_PUT(Cur, c, str(d["_id"]), b)
                      new == [k \in {"_id"} \cup ScriptRequired |->
                                 IF k = "_id" THEN d["_id"] ELSE b.fields[k]]
                  IN  /\ \A f \in Ends(r) : f.resp.status = 200 /\ f.st = r.st
                      /\ r.st.scripts = (scripts_collection \ {d}) \cup {new}
                      /\ Cardinality(r.st.scripts) = Cardinality(scripts_collection)
                      /\ r.st.accounts = accounts_collection
                      /\ r.st.session = session
                      /\ r.st.inc = inc
        /\ \A d \in accounts_collection, b \in AccountBodies :
              Full(b, AccountRequired) =>
                  LET r   == accounts_PUT(Cur, c, str(d["_id"]), b)
                      new == [k \in {"_id", "accentColor"} \cup AccountRequired |->
                                 IF k = "_id" THEN d["_id"]
                                 ELSE IF k \in DOMAIN b.fields THEN b.fields[k]
                                 ELSE DefaultAccent]
                  IN  /\ \A f \in Ends(r) : f.resp.status = 200 /\ f.st = r.st
                      /\ r.st.accounts = (accounts_collection \ {d}) \cup {new}
                      /\ Cardinality(r.st.accounts) = Cardinality(accounts_collection)
                      /\ r.st.scripts = scripts_collection
                      /\ r.st.session = session
                      /\ r.st.inc = inc

\* An account created with its own accent colour has been updated by a
\* payload without one, next to another stored record.
C10_Witness ==
    /\ resp.op = "PUT accounts"
    /\ resp.status = 200
    /\ \E d \in accounts_collection :
          d["accentColor"] = DefaultAccent /\ d["name"] = "a" /\ d["_id"] = 1
    /\ scripts_collection # {}

====
